---- MODULE Spec2Model ----
(***************************************************************************)
(* Model of the local Sengled integration: the process-wide SengledSession *)
(* (sengledapi.py), the SengledApi operations on it and the Bulb facade    *)
(* (devices/bulbs/bulb.py).                                                *)
(*                                                                         *)
(* Python values that a field can hold with more than one type are wrapped *)
(* (PyNone, PyInt, PyStr) so that an int and a str never compare equal.    *)
(* The add-on's HTTP responses, the broker's answers and inbound bus       *)
(* messages are inputs, drawn from the small sets defined below.           *)
(***************************************************************************)
EXTENDS Integers, Sequences, FiniteSets, TLC

VARIABLES
    mqtt_client,   \* SESSION.mqtt_client and its connection state
    subscribe,     \* SESSION.subscribe: topic -> callback (a bulb's update_status)
    devices,       \* SESSION.devices: sequence of BulbProperty records
    bulbs,         \* the Bulb objects discover_devices handed to the entity layer
    hass,          \* async_setup: how far it got, what it returned, hass.data, the light platform
    entities,      \* the SengledBulb light entities, one per bulb (light.py)
    sent,          \* messages handed to mqtt_client.publish by the latest operation
    last           \* the latest operation: its name, inputs and outcome

vars == <<mqtt_client, subscribe, devices, bulbs, hass, entities, sent, last>>

-----------------------------------------------------------------------------
(* Bounds of the model *)

\* decimal literals int() is asked to parse lie in -MaxLit..MaxLit
MaxLit == 100
\* time.time() in epoch milliseconds is drawn from 0..MaxTime
MaxTime == 1

-----------------------------------------------------------------------------
(* Python values *)

PyNone == [none |-> TRUE]
PyInt(n) == [int |-> n]
PyStr(s) == [str |-> s]
\* an attribute that was never assigned (hasattr() is false)
PyUnset == [unset |-> TRUE]

IsPyInt(v) == DOMAIN v = {"int"}
IsPyStr(v) == DOMAIN v = {"str"}

\* str(value) as publish_mqtt applies it: a str is itself, an int its decimal form
PyStrOf(v) == IF IsPyInt(v) THEN ToString(v.int) ELSE v.str

\* int(s) for a str: the integer whose decimal form is s; anything else raises
\* ValueError (the inputs hold canonical literals or non-numeric text only)
IsIntLiteral(s) == \E n \in (0 - MaxLit)..MaxLit : ToString(n) = s
IntOf(s) == CHOOSE n \in (0 - MaxLit)..MaxLit : ToString(n) = s

\* Python 3 round(num/den) for den > 0: nearest integer, ties to the even one
RoundHalfEven(num, den) ==
    LET q == num \div den
        r == num % den
    IN  IF 2 * r < den THEN q
        ELSE IF 2 * r > den THEN q + 1
        ELSE IF q % 2 = 0 THEN q ELSE q + 1

\* Bulb.translate followed by round(): left range [lmin,lmax] onto [rmin,rmax]
translate_round(value, lmin, lmax, rmin, rmax) ==
    RoundHalfEven(rmin * (lmax - lmin) + (value - lmin) * (rmax - rmin), lmax - lmin)

\* round((brightness / 255) * 100), bulb.py line 89
brightness_to_device(b) == RoundHalfEven(b * 100, 255)
\* (mutant) the reported percentage is kept as it is
brightness_from_device_Unscaled(p) == p

\* round((int(attrs["brightness"]) / 100) * 255), bulb.py line 166
brightness_from_device(p) == RoundHalfEven(p * 255, 100)
\* round(self.translate(int(color_temperature), 200, 6500, 1, 100)), bulb.py line 109
kelvin_to_device(k) == translate_round(k, 200, 6500, 1, 100)
\* round(self.translate(temp_percent, 0, 100, 2000, 6500)), bulb.py line 171
kelvin_from_device(p) == translate_round(p, 0, 100, 2000, 6500)

\* Bulb.convert_color_HA: str() of the RGB tuple with " ", "(", ")" removed and
\* "," replaced by ":"
convert_color_HA(c) ==
    ToString(c[1]) \o ":" \o ToString(c[2]) \o ":" \o ToString(c[3])

UpdateTopic(mac) == "wifielement/" \o mac \o "/update"
StatusTopic(mac) == "wifielement/" \o mac \o "/status"

-----------------------------------------------------------------------------
(* SengledApi.publish_mqtt (sengledapi.py lines 332-365) *)

Macs == {"AA:BB", "CC:DD"}

\* what a call returned, or the exception that left it
Return(v) == [kind |-> "return", value |-> v]
Raise(e) == [kind |-> "raise", value |-> e]

\* The ways r.wait_for_publish() can end, by connection state.  paho-mqtt's
\* publish() on a client without a socket answers MQTT_ERR_NO_CONN and
\* wait_for_publish() then raises RuntimeError; a full outgoing queue makes it
\* raise ValueError; otherwise it returns once the message is published.
\* While the CONNACK is awaited the socket may or may not be there.
WaitOutcomes(client) ==
    IF client = "connected" THEN {"published", "ValueError"}
    ELSE IF client = "connecting" THEN {"published", "ValueError", "RuntimeError"}
    ELSE {"RuntimeError"}

\* the payload list built at lines 344-349 (json.dumps serialises this value)
CommandPayload(device_mac, command_type, value, t) ==
    << [dn |-> device_mac, type |-> command_type,
        value |-> PyStrOf(value), time |-> t] >>

\* (mutant) the message is published again when the first attempt is made
PublishMessages_Twice(client, device_mac, command_type, value, t) ==
    IF client = "None" THEN << >>
    ELSE LET m == [topic |-> UpdateTopic(device_mac),
                   payload |-> CommandPayload(device_mac, command_type, value, t)]
         IN  << m, m >>

\* the messages publish_mqtt hands to mqtt_client.publish (line 356)
PublishMessages(client, device_mac, command_type, value, t) ==
    IF client = "None" THEN << >>
    ELSE << [topic |-> UpdateTopic(device_mac),
             payload |-> CommandPayload(device_mac, command_type, value, t)] >>

\* how publish_mqtt ends: `return False` without a client (line 338); after the
\* wait, `return r.is_published` (line 361); ValueError is swallowed and False
\* returned (lines 362-365); any other exception leaves the function.
PublishReturn(client, outcome) ==
    IF client = "None" THEN Return("False")
    ELSE IF outcome = "published" THEN Return("r.is_published")
    ELSE IF outcome = "ValueError" THEN Return("False")
    ELSE Raise(outcome)

publish_mqtt(client, device_mac, command_type, value, t, outcome) ==
    [msgs |-> PublishMessages(client, device_mac, command_type, value, t),
     ret |-> PublishReturn(client, outcome)]

CommandTypes == {"switch", "brightness", "color", "colorTemperature"}
CommandValues == {PyStr("1"), PyStr("0"), PyInt(50), PyStr("255:0:0")}

PublishMqtt(device_mac, command_type, value) ==
    \E t \in 0..MaxTime, outcome \in WaitOutcomes(mqtt_client) :
        LET p == publish_mqtt(mqtt_client, device_mac, command_type, value, t, outcome)
        IN  /\ sent' = p.msgs
            /\ last' = [op |-> "publish_mqtt", device_mac |-> device_mac,
                        command_type |-> command_type, value |-> value,
                        client |-> mqtt_client, outcome |-> outcome, ret |-> p.ret]
            /\ UNCHANGED <<mqtt_client, subscribe, devices, bulbs, hass, entities>>

-----------------------------------------------------------------------------
(* Bulb (devices/bulbs/bulb.py) *)

\* Bulb.__init__, lines 39-65 (friendly_name, device_model, the unused rgb and
\* alarm fields, jsession_id and country are constant and left out)
NewBulb(device_mac, state, isonline, support_color, support_color_temp, support_brightness) ==
    [device_mac |-> device_mac,
     state |-> state,
     available |-> isonline,
     device_rssi |-> -30,
     brightness |-> PyInt(255),
     color |-> PyStr("255:255:255"),
     color_temperature |-> PyNone,
     color_mode |-> PyUnset,
     support_color |-> support_color,
     support_color_temp |-> support_color_temp,
     support_brightness |-> support_brightness,
     firmware_version |-> PyNone,
     atomizer_switch |-> PyNone,
     atomizer_mode |-> PyNone,
     atomizer_sleep |-> PyNone,
     water_state |-> PyNone]

\* Bulb.is_on
is_on(b) == b.state

\* async_toggle, lines 73-76: the flag is set before the command is published
ToggleState(b, onoff) == [b EXCEPT !.state = (onoff = "1")]

\* async_set_brightness, lines 86-98: no field of the bulb is assigned
SetBrightnessFields(b, brightness) == b

\* async_color_temperature, lines 100-113: no field of the bulb is assigned
ColorTemperatureFields(b, color_temperature) == b

\* async_set_color, lines 128-129: self._state = True once publish_mqtt returned
SetColorFields(b, color, ret) ==
    IF ret.kind = "raise" THEN b ELSE [b EXCEPT !.state = TRUE]

OnOff == {"1", "0"}
BrightnessArgs == {0, 1, 128, 255}
KelvinArgs == {2000, 4250, 6500}
ColorArgs == {<<255, 0, 0>>, <<0, 0, 255>>}

\* (mutant) the flag is set only once the command is known to be published
async_toggle_IfPublished(b, client, onoff, t, outcome) ==
    LET p == publish_mqtt(client, b.device_mac, "switch", PyStr(onoff), t, outcome)
    IN  [bulb |-> IF p.ret = Return("r.is_published") THEN ToggleState(b, onoff) ELSE b,
         pub |-> p]

\* the four setters: the bulb after the call and what publish_mqtt did
async_toggle(b, client, onoff, t, outcome) ==
    [bulb |-> ToggleState(b, onoff),
     pub |-> publish_mqtt(client, b.device_mac, "switch", PyStr(onoff), t, outcome)]

async_set_brightness(b, client, brightness, t, outcome) ==
    [bulb |-> SetBrightnessFields(b, brightness),
     pub |-> publish_mqtt(client, b.device_mac, "brightness",
                          PyStr(ToString(brightness_to_device(brightness))), t, outcome)]

async_color_temperature(b, client, color_temperature, t, outcome) ==
    [bulb |-> ColorTemperatureFields(b, color_temperature),
     pub |-> publish_mqtt(client, b.device_mac, "colorTemperature",
                          PyStr(ToString(kelvin_to_device(color_temperature))), t, outcome)]

async_set_color(b, client, color, t, outcome) ==
    LET p == publish_mqtt(client, b.device_mac, "color",
                          PyStr(convert_color_HA(color)), t, outcome)
    IN  [bulb |-> SetColorFields(b, color, p.ret), pub |-> p]

AsyncToggle(i, onoff) ==
    \E t \in 0..MaxTime, outcome \in WaitOutcomes(mqtt_client) :
        LET r == async_toggle(bulbs[i], mqtt_client, onoff, t, outcome)
        IN  /\ bulbs' = [bulbs EXCEPT ![i] = r.bulb]
            /\ sent' = r.pub.msgs
            /\ last' = [op |-> "async_toggle", i |-> i, arg |-> onoff,
                        was_on |-> is_on(bulbs[i]), pub |-> r.pub.ret]
            /\ UNCHANGED <<mqtt_client, subscribe, devices, hass, entities>>

AsyncSetBrightness(i, brightness) ==
    \E t \in 0..MaxTime, outcome \in WaitOutcomes(mqtt_client) :
        LET r == async_set_brightness(bulbs[i], mqtt_client, brightness, t, outcome)
        IN  /\ bulbs' = [bulbs EXCEPT ![i] = r.bulb]
            /\ sent' = r.pub.msgs
            /\ last' = [op |-> "async_set_brightness", i |-> i, arg |-> brightness,
                        pub |-> r.pub.ret]
            /\ UNCHANGED <<mqtt_client, subscribe, devices, hass, entities>>

AsyncColorTemperature(i, color_temperature) ==
    \E t \in 0..MaxTime, outcome \in WaitOutcomes(mqtt_client) :
        LET r == async_color_temperature(bulbs[i], mqtt_client, color_temperature,
                                         t, outcome)
        IN  /\ bulbs' = [bulbs EXCEPT ![i] = r.bulb]
            /\ sent' = r.pub.msgs
            /\ last' = [op |-> "async_color_temperature", i |-> i,
                        arg |-> color_temperature, pub |-> r.pub.ret]
            /\ UNCHANGED <<mqtt_client, subscribe, devices, hass, entities>>

AsyncSetColor(i, color) ==
    \E t \in 0..MaxTime, outcome \in WaitOutcomes(mqtt_client) :
        LET r == async_set_color(bulbs[i], mqtt_client, color, t, outcome)
        IN  /\ bulbs' = [bulbs EXCEPT ![i] = r.bulb]
            /\ sent' = r.pub.msgs
            /\ last' = [op |-> "async_set_color", i |-> i, arg |-> color, pub |-> r.pub.ret]
            /\ UNCHANGED <<mqtt_client, subscribe, devices, hass, entities>>

-----------------------------------------------------------------------------
(* SengledBulb, the light entity (light.py) *)

\* SengledBulb.__init__, lines 51-74: the entity copies the bulb's fields
\* (brightness is never None here, so lines 72-74 assign nothing)
SengledBulb(light) ==
    [state |-> light.state,
     brightness |-> light.brightness,
     available |-> light.available,
     color_temperature |-> light.color_temperature,
     color |-> light.color,
     device_rssi |-> light.device_rssi]

\* (mutant) the copy leaves the brightness out
EntityCopy_NoBrightness(e, light) ==
    [e EXCEPT !.state = light.state,
              !.available = light.available,
              !.color_temperature = light.color_temperature,
              !.color = light.color,
              !.device_rssi = light.device_rssi]

\* lines 234-243: the copy made at the end of SengledBulb.async_update
EntityCopy(e, light) ==
    [e EXCEPT !.state = light.state,
              !.available = light.available,
              !.brightness = light.brightness,
              !.color_temperature = light.color_temperature,
              !.color = light.color,
              !.device_rssi = light.device_rssi]

\* colorutil.color_hs_to_RGB for the hue/saturation pairs of HsArgs (light.py
\* line 219): full-saturation red and blue
HsArgs == {<<0, 100>>, <<240, 100>>}
color_hs_to_RGB(hs) == IF hs = <<0, 100>> THEN <<255, 0, 0>> ELSE <<0, 0, 255>>

\* the keyword arguments of async_turn_on: any of brightness, hs_color and
\* color_temp_kelvin
NoKwargs == [k \in {} |-> 0]
TurnOnKwargs ==
    { NoKwargs,
      [brightness |-> 128],
      [hs_color |-> <<0, 100>>],
      [color_temp_kelvin |-> 4250],
      [brightness |-> 1, color_temp_kelvin |-> 6500],
      [brightness |-> 255, hs_color |-> <<240, 100>>, color_temp_kelvin |-> 2000] }

\* a handler that calls setters one after the other: the bulb so far, the
\* messages handed to the bus so far, and whether a call raised (which ends
\* the handler)
Called(s, r) ==
    [bulb |-> r.bulb, msgs |-> s.msgs \o r.pub.msgs,
     raised |-> r.pub.ret.kind = "raise"]

\* SengledBulb.async_turn_on, lines 209-223; o[n] is how the wait of the n-th
\* possible publish ends
async_turn_on(b, client, kwargs, t, o) ==
    LET s0 == [bulb |-> b, msgs |-> << >>, raised |-> FALSE]
        s1 == IF DOMAIN kwargs \cap {"brightness", "hs_color", "color_temp_kelvin"} = {}
              THEN Called(s0, async_toggle(s0.bulb, client, "1", t, o[1]))
              ELSE s0
        s2 == IF ~s1.raised /\ "brightness" \in DOMAIN kwargs
              THEN Called(s1, async_set_brightness(s1.bulb, client,
                                                   kwargs.brightness, t, o[2]))
              ELSE s1
        s3 == IF ~s2.raised /\ "hs_color" \in DOMAIN kwargs
              THEN Called(s2, async_set_color(s2.bulb, client,
                                              color_hs_to_RGB(kwargs.hs_color), t, o[3]))
              ELSE s2
    IN  IF ~s3.raised /\ "color_temp_kelvin" \in DOMAIN kwargs
        THEN Called(s3, async_color_temperature(s3.bulb, client,
                                                kwargs.color_temp_kelvin, t, o[4]))
        ELSE s3

\* SengledBulb.async_turn_off, lines 225-227
async_turn_off(b, client, t, outcome) ==
    Called([bulb |-> b, msgs |-> << >>, raised |-> FALSE],
           async_toggle(b, client, "0", t, outcome))

AsyncTurnOn(i, kwargs) ==
    \E t \in 0..MaxTime, o \in [1..4 -> WaitOutcomes(mqtt_client)] :
        LET r == async_turn_on(bulbs[i], mqtt_client, kwargs, t, o)
        IN  /\ bulbs' = [bulbs EXCEPT ![i] = r.bulb]
            /\ sent' = r.msgs
            /\ last' = [op |-> "async_turn_on", i |-> i, kwargs |-> kwargs,
                        client |-> mqtt_client, was_on |-> is_on(bulbs[i]),
                        raised |-> r.raised]
            /\ UNCHANGED <<mqtt_client, subscribe, devices, hass, entities>>

AsyncTurnOff(i) ==
    \E t \in 0..MaxTime, outcome \in WaitOutcomes(mqtt_client) :
        LET r == async_turn_off(bulbs[i], mqtt_client, t, outcome)
        IN  /\ bulbs' = [bulbs EXCEPT ![i] = r.bulb]
            /\ sent' = r.msgs
            /\ last' = [op |-> "async_turn_off", i |-> i, client |-> mqtt_client,
                        raised |-> r.raised]
            /\ UNCHANGED <<mqtt_client, subscribe, devices, hass, entities>>

-----------------------------------------------------------------------------
(* Bulb.async_update (bulb.py lines 135-202) *)

\* a step of the handler: the bulb as it stands, and whether the step raised
Ok(b) == [bulb |-> b, raised |-> FALSE]
Raised(b) == [bulb |-> b, raised |-> TRUE]

\* line 152: self._device_rssi = int(attrs.get("deviceRssi", -50))
StepRssi(b, attrs) ==
    IF "deviceRssi" \notin DOMAIN attrs THEN Ok([b EXCEPT !.device_rssi = -50])
    ELSE IF IsIntLiteral(attrs["deviceRssi"])
         THEN Ok([b EXCEPT !.device_rssi = IntOf(attrs["deviceRssi"])])
         ELSE Raised(b)

\* (mutant) the polled switch attribute overwrites the local flag
StepSwitch_FromApi(b, attrs) ==
    [b EXCEPT !.state = ("switch" \in DOMAIN attrs /\ attrs["switch"] = "1")]

\* lines 156-162: api_state is compared with self._state and a mismatch is only
\* logged; self._state is not assigned
StepSwitch(b, attrs) == b

\* lines 165-166
StepBrightness(b, attrs) ==
    IF b.support_brightness /\ "brightness" \in DOMAIN attrs
    THEN IF IsIntLiteral(attrs["brightness"])
         THEN Ok([b EXCEPT !.brightness =
                      PyInt(brightness_from_device(IntOf(attrs["brightness"])))])
         ELSE Raised(b)
    ELSE Ok(b)

\* lines 169-171
StepColorTemperature(b, attrs) ==
    IF b.support_color_temp /\ "colorTemperature" \in DOMAIN attrs
    THEN IF IsIntLiteral(attrs["colorTemperature"])
         THEN Ok([b EXCEPT !.color_temperature =
                      PyInt(kelvin_from_device(IntOf(attrs["colorTemperature"])))])
         ELSE Raised(b)
    ELSE Ok(b)

\* lines 174-175
StepColor(b, attrs) ==
    IF b.support_color /\ "color" \in DOMAIN attrs
    THEN [b EXCEPT !.color = PyStr(attrs["color"])]
    ELSE b

\* lines 178-179
StepVersion(b, attrs) ==
    IF "version" \in DOMAIN attrs
    THEN [b EXCEPT !.firmware_version = PyStr(attrs["version"])]
    ELSE b

\* lines 182-189
StepAtomizer(b, attrs) ==
    [b EXCEPT
        !.atomizer_switch = IF "atomizerSwitch" \in DOMAIN attrs
                            THEN PyStr(attrs["atomizerSwitch"]) ELSE @,
        !.atomizer_mode = IF "atomizerMode" \in DOMAIN attrs
                          THEN PyStr(attrs["atomizerMode"]) ELSE @,
        !.atomizer_sleep = IF "atomizerSleep" \in DOMAIN attrs
                           THEN PyStr(attrs["atomizerSleep"]) ELSE @,
        !.water_state = IF "waterState" \in DOMAIN attrs
                        THEN PyStr(attrs["waterState"]) ELSE @]

\* lines 200-202: the except clause marks the device unavailable and keeps
\* whatever the body had assigned before the exception
ExceptUnavailable(b) == [b EXCEPT !.available = FALSE]

\* lines 148-192: the body run on a 200/success response that holds "device"
UpdateFromAttrs(b, attrs) ==
    LET s0 == [b EXCEPT !.available = TRUE]
        s1 == StepRssi(s0, attrs)
        s2 == IF s1.raised THEN s1 ELSE StepBrightness(StepSwitch(s1.bulb, attrs), attrs)
        s3 == IF s2.raised THEN s2 ELSE StepColorTemperature(s2.bulb, attrs)
    IN  IF s3.raised THEN ExceptUnavailable(s3.bulb)
        ELSE StepAtomizer(StepVersion(StepColor(s3.bulb, attrs), attrs), attrs)

\* The response of GET /api/device/{mac}: the HTTP status, whether the body
\* parses as JSON, the "success" flag, whether "device" and its "attributes"
\* are present, and the attributes (name -> str).
\* lines 145-202 as a whole
AsyncUpdateFields(b, r) ==
    IF r.status # 200 THEN [b EXCEPT !.available = FALSE]
    ELSE IF ~r.json_ok THEN ExceptUnavailable(b)
    ELSE IF ~(r.success /\ r.has_device) THEN [b EXCEPT !.available = FALSE]
    ELSE IF ~r.has_attributes THEN ExceptUnavailable(b)
    ELSE UpdateFromAttrs(b, r.attrs)

Response(status, json_ok, success, has_device, has_attributes, attrs) ==
    [status |-> status, json_ok |-> json_ok, success |-> success,
     has_device |-> has_device, has_attributes |-> has_attributes, attrs |-> attrs]

NoAttrs == [n \in {} |-> ""]

FullAttrs ==
    [switch |-> "0", deviceRssi |-> "-40", brightness |-> "50",
     colorTemperature |-> "50", color |-> "255:0:0", version |-> "V1",
     atomizerSwitch |-> "1", atomizerMode |-> "2", atomizerSleep |-> "0",
     waterState |-> "1"]

UpdateResponses ==
    { Response(200, TRUE, TRUE, TRUE, TRUE, FullAttrs),
      Response(200, TRUE, TRUE, TRUE, TRUE, [switch |-> "1"]),
      Response(200, TRUE, TRUE, TRUE, TRUE, [deviceRssi |-> "-40", brightness |-> "abc"]),
      Response(200, TRUE, TRUE, TRUE, TRUE, [deviceRssi |-> "weak", brightness |-> "50"]),
      Response(200, TRUE, TRUE, TRUE, TRUE,
               [brightness |-> "100", colorTemperature |-> "warm", version |-> "V1"]),
      Response(200, TRUE, TRUE, TRUE, FALSE, NoAttrs),
      Response(200, TRUE, TRUE, FALSE, FALSE, NoAttrs),
      Response(200, TRUE, FALSE, TRUE, TRUE, FullAttrs),
      Response(200, FALSE, FALSE, FALSE, FALSE, NoAttrs),
      Response(500, TRUE, TRUE, TRUE, TRUE, FullAttrs) }

\* SengledBulb.async_update (light.py lines 229-244) awaits the bulb's
\* async_update and then copies the bulb's fields into the entity
AsyncUpdate(i, r) ==
    /\ bulbs' = [bulbs EXCEPT ![i] = AsyncUpdateFields(bulbs[i], r)]
    /\ entities' = [entities EXCEPT ![i] = EntityCopy(entities[i], bulbs'[i])]
    /\ sent' = << >>
    /\ last' = [op |-> "async_update", i |-> i, arg |-> r, after |-> last.op,
                after_unsent_flip |-> (last.op = "async_toggle"
                                         /\ last.i = i
                                         /\ last.pub # Return("r.is_published")
                                         /\ last.was_on # (last.arg = "1"))]
    /\ UNCHANGED <<mqtt_client, subscribe, devices, hass>>

-----------------------------------------------------------------------------
(* Bulb.update_status (bulb.py lines 204-227) *)

StatusTypes == {"color", "colorMode", "brightness", "colorTemperature"}

\* lines 220-227: the field named by the record's type takes the record's value
SetStatusField(b, type, value) ==
    CASE type = "color" -> [b EXCEPT !.color = value]
      [] type = "colorMode" -> [b EXCEPT !.color_mode = value]
      [] type = "brightness" -> [b EXCEPT !.brightness = value]
      [] type = "colorTemperature" -> [b EXCEPT !.color_temperature = value]
      [] OTHER -> b

\* (mutant) the record's dn is not compared with the device's identifier
StatusRecord_AnyDn(b, status) ==
    IF "type" \notin DOMAIN status \/ "dn" \notin DOMAIN status THEN Ok(b)
    ELSE IF status.type \notin StatusTypes THEN Ok(b)
    ELSE IF "value" \notin DOMAIN status THEN Raised(b)
    ELSE Ok(SetStatusField(b, status.type, status.value))

\* lines 216-227 for one status record; status["value"] of a record without
\* that key raises KeyError
StatusRecord(b, status) ==
    IF "type" \notin DOMAIN status \/ "dn" \notin DOMAIN status THEN Ok(b)
    ELSE IF status.dn # b.device_mac THEN Ok(b)
    ELSE IF status.type \notin StatusTypes THEN Ok(b)
    ELSE IF "value" \notin DOMAIN status THEN Raised(b)
    ELSE Ok(SetStatusField(b, status.type, status.value))

RECURSIVE StatusLoop(_, _, _)
\* line 215: for status in data, from record k on
StatusLoop(b, data, k) ==
    IF k > Len(data) THEN Ok(b)
    ELSE LET s == StatusRecord(b, data[k])
         IN  IF s.raised THEN s ELSE StatusLoop(s.bulb, data, k + 1)

\* lines 209-213: a message json.loads cannot parse is dropped
update_status(b, message) ==
    IF ~message.json_ok THEN Ok(b) ELSE StatusLoop(b, message.data, 1)

-----------------------------------------------------------------------------
(* SengledApi.async_get_devices_from_addon (sengledapi.py lines 147-195) *)

\* The response of GET /api/devices: the HTTP status, whether the body parses
\* as JSON, the "success" flag, whether "devices" is present, and the entries
\* of "devices" in document order.  An entry is its MAC key and either a
\* well-formed object (capabilities, attributes as name/value pairs) or a value
\* device_info.get cannot be called on (ok = FALSE).
Listing(status, json_ok, success, has_devices, entries) ==
    [status |-> status, json_ok |-> json_ok, success |-> success,
     has_devices |-> has_devices, entries |-> entries]

Entry(mac, capabilities, attributes) ==
    [mac |-> mac, ok |-> TRUE, capabilities |-> capabilities, attributes |-> attributes]
BadEntry(mac) ==
    [mac |-> mac, ok |-> FALSE, capabilities |-> << >>, attributes |-> << >>]

Attr(name, value) == [name |-> name, value |-> value]

RECURSIVE Join(_)
\* ",".join(capabilities), line 177
Join(caps) ==
    IF Len(caps) = 0 THEN ""
    ELSE IF Len(caps) = 1 THEN caps[1]
    ELSE caps[1] \o "," \o Join(Tail(caps))

\* lines 168-185: the bulb_data dictionary built for one entry
BulbData(e) ==
    [deviceUuid |-> e.mac,
     attributeList |->
         << Attr("supportAttributes", Join(e.capabilities)) >> \o
         [k \in 1..Len(e.attributes) |->
             Attr(e.attributes[k].name, PyStrOf(e.attributes[k].value))]]

\* line 187: BulbProperty(self, bulb_data, True)
BulbProperty(info, wifi) == [info |-> info, wifi |-> wifi]

RECURSIVE BuildDevices(_, _, _)
\* lines 166-187: the loop over devices_data, appending to the list cleared at
\* line 163; an entry that raises ends the loop with the list as built so far
BuildDevices(entries, k, acc) ==
    IF k > Len(entries) THEN Ok(acc)
    ELSE IF ~entries[k].ok THEN Raised(acc)
    ELSE BuildDevices(entries, k + 1, Append(acc, BulbProperty(BulbData(entries[k]), TRUE)))

\* SESSION.devices when the call returns (line 195), from the list before the
\* call and the response
GetDevicesResult(prev, l) ==
    IF l.status # 200 THEN prev
    ELSE IF ~l.json_ok THEN prev
    ELSE IF ~(l.success /\ l.has_devices) THEN prev
    ELSE BuildDevices(l.entries, 1, << >>).bulb

CapAll == <<"brightness", "color", "colorTemperature">>
CapLists == { << >>, <<"brightness">>, CapAll }

EntryA1 == Entry("AA:BB", <<"brightness">>,
                 << Attr("switch", PyStr("1")), Attr("brightness", PyStr("50")) >>)
EntryA2 == Entry("AA:BB", CapAll,
                 << Attr("switch", PyStr("0")), Attr("brightness", PyInt(100)),
                    Attr("online", PyStr("1")) >>)
EntryC == Entry("CC:DD", << >>, << Attr("switch", PyStr("1")) >>)

\* listings of one well-formed device
SingleListings ==
    { Listing(200, TRUE, TRUE, TRUE, << EntryA1 >>),
      Listing(200, TRUE, TRUE, TRUE, << EntryA2 >>) }

\* the listings the status specification discovers from
StatusListings ==
    { Listing(200, TRUE, TRUE, TRUE, << EntryA2 >>),
      Listing(200, TRUE, TRUE, TRUE, << EntryA2, EntryC >>) }

Listings ==
    SingleListings \cup
    { Listing(200, TRUE, TRUE, TRUE, << EntryA1 >>),
      Listing(200, TRUE, TRUE, TRUE, << EntryA2, EntryC >>),
      Listing(200, TRUE, TRUE, TRUE, << >>),
      Listing(200, TRUE, TRUE, TRUE, << EntryA1, BadEntry("CC:DD") >>),
      Listing(200, TRUE, TRUE, FALSE, << >>),
      Listing(200, TRUE, FALSE, TRUE, << EntryA1 >>),
      Listing(200, FALSE, FALSE, FALSE, << >>),
      Listing(500, TRUE, TRUE, TRUE, << EntryA1 >>) }

\* async_setup (__init__.py lines 33-86): pc is "start" until the connection
\* check of lines 60-64 has run, "fetching" while async_get_devices is awaited
\* and "done" once async_setup has returned `ret`; account tells whether
\* hass.data[DOMAIN] holds the account object; light is "no" until the light
\* platform is loaded (line 80), "loading" until its async_setup_platform has
\* run and "loaded" afterwards
SetupState(pc, ret, account, light) ==
    [pc |-> pc, ret |-> ret, account |-> account, light |-> light]

NoSetup == SetupState("start", "None", FALSE, "no")

\* __init__.py lines 69-86: what async_setup does with the list that
\* async_get_devices returned
SetupAfterFetch(sengledapi_devices) ==
    SetupState("done", "True", TRUE,
               IF Len(sengledapi_devices) > 0 THEN "loading" ELSE "no")

\* the second half of async_setup: line 69 awaits async_get_devices, lines
\* 75-86 store the account, load the light platform when the list is not
\* empty and return True
AsyncGetDevices(l) ==
    /\ hass.pc = "fetching"
    /\ devices' = GetDevicesResult(devices, l)
    /\ hass' = SetupAfterFetch(devices')
    /\ sent' = << >>
    /\ last' = [op |-> "async_get_devices", arg |-> l, prev |-> devices]
    /\ UNCHANGED <<mqtt_client, subscribe, bulbs, entities>>

-----------------------------------------------------------------------------
(* BulbProperty: the accessors discover_devices reads *)

\* the value of attribute `name` in the attributeList ("" when it is absent)
BP_attribute(bp, name) ==
    LET al == bp.info.attributeList
        at == {k \in 1..Len(al) : al[k].name = name}
    IN  IF at = {} THEN ""
        ELSE al[CHOOSE k \in at : \A j \in at : j <= k].value

BP_uuid(bp) == bp.info.deviceUuid
BP_switch(bp) == BP_attribute(bp, "switch") = "1"
BP_isOnline(bp) == BP_attribute(bp, "online") = "1"
BP_supports(bp, capability) ==
    \E caps \in CapLists :
        /\ Join(caps) = BP_attribute(bp, "supportAttributes")
        /\ \E k \in 1..Len(caps) : caps[k] = capability

-----------------------------------------------------------------------------
(* SengledApi.discover_devices (sengledapi.py lines 202-222) *)

\* lines 206-221: the Bulb built for one device of the list
BulbOf(device) ==
    NewBulb(BP_uuid(device), BP_switch(device), BP_isOnline(device),
            BP_supports(device, "color"), BP_supports(device, "colorTemperature"),
            BP_supports(device, "brightness"))

\* lines 204-222
DiscoveredBulbs(devs) == [k \in 1..Len(devs) |-> BulbOf(devs[k])]

\* Bulb.__init__ lines 66-69: the subscription of update_status to the
\* device's status topic is commented out, so constructing a bulb adds nothing
\* to SESSION.subscribe
BulbInitSubscribe(subs, b, k) == subs

RECURSIVE SubscribeAll(_, _, _)
SubscribeAll(subs, bs, k) ==
    IF k > Len(bs) THEN subs
    ELSE SubscribeAll(BulbInitSubscribe(subs, bs[k], k), bs, k + 1)

\* light.async_setup_platform calls discover_devices once, when async_setup
\* loads the platform (light.py lines 37-45, __init__.py line 80)
DiscoverDevices(l) ==
    /\ hass.light = "loading"
    /\ hass' = [hass EXCEPT !.light = "loaded"]
    /\ devices' = GetDevicesResult(devices, l)
    /\ bulbs' = DiscoveredBulbs(devices')
    /\ entities' = [k \in DOMAIN bulbs' |-> SengledBulb(bulbs'[k])]
    /\ subscribe' = SubscribeAll(subscribe, bulbs', 1)
    /\ sent' = << >>
    /\ last' = [op |-> "discover_devices", arg |-> l, prev |-> devices]
    /\ UNCHANGED <<mqtt_client>>

-----------------------------------------------------------------------------
(* The bus connection (sengledapi.py lines 272-309) *)

\* mqtt_client is "None" before initialize_mqtt; afterwards the client object
\* exists and is "failed" (connect raised, loop not started), "connecting"
\* (CONNACK awaited), "connected" or "lost" (the loop is reconnecting).
\* (mutant) the check asks only whether the client object exists
is_valid_connection_ClientOnly(client) == client # "None"

\* SengledApi.is_valid_connection, lines 93-94
is_valid_connection(client) == client = "connected"

\* initialize_mqtt, lines 289-309: async_init calls it once
InitializeMqtt(connect_raises) ==
    /\ mqtt_client = "None"
    /\ mqtt_client' = IF connect_raises THEN "failed" ELSE "connecting"
    /\ sent' = << >>
    /\ last' = [op |-> "initialize_mqtt",
                ret |-> IF connect_raises THEN "False" ELSE "True"]
    /\ UNCHANGED <<subscribe, devices, bulbs, hass, entities>>

\* __init__.py lines 60-64: right after async_init, async_setup asks
\* is_valid_connection and returns False when the client is not connected;
\* the client's network thread runs meanwhile, so CONNACK may or may not have
\* been handled
SetupAfterCheck(valid) ==
    IF valid THEN SetupState("fetching", "None", FALSE, "no")
    ELSE SetupState("done", "False", FALSE, "no")

AsyncSetup ==
    /\ mqtt_client # "None"
    /\ hass.pc = "start"
    /\ hass' = SetupAfterCheck(is_valid_connection(mqtt_client))
    /\ sent' = << >>
    /\ last' = [op |-> "async_setup", client |-> mqtt_client, ret |-> hass'.ret]
    /\ UNCHANGED <<mqtt_client, subscribe, devices, bulbs, entities>>

\* the client's network loop: CONNACK, loss of the connection, reconnect
OnConnect(rc) ==
    /\ mqtt_client = "connecting"
    /\ mqtt_client' = IF rc = 0 THEN "connected" ELSE "lost"
    /\ sent' = << >>
    /\ last' = [op |-> "on_connect", arg |-> rc]
    /\ UNCHANGED <<subscribe, devices, bulbs, hass, entities>>

OnDisconnect ==
    /\ mqtt_client = "connected"
    /\ mqtt_client' = "lost"
    /\ sent' = << >>
    /\ last' = [op |-> "on_disconnect"]
    /\ UNCHANGED <<subscribe, devices, bulbs, hass, entities>>

LoopReconnect ==
    /\ mqtt_client = "lost"
    /\ mqtt_client' = "connecting"
    /\ sent' = << >>
    /\ last' = [op |-> "loop_reconnect"]
    /\ UNCHANGED <<subscribe, devices, bulbs, hass, entities>>

-----------------------------------------------------------------------------
(* subscribe_mqtt, unsubscribe_mqtt, on_message (lines 367-383, 275-278) *)

\* SESSION.subscribe as a set of (topic, callback) entries, one per topic; a
\* callback is the update_status method of the bulb at index `bulb`
Topics(subs) == {e.topic : e \in subs}
CallbackOf(subs, topic) == (CHOOSE e \in subs : e.topic = topic).callback

\* the answer of mqtt_client.subscribe(topic), by connection state
SubscribeRcs(client) ==
    IF client = "connected" THEN {"MQTT_ERR_SUCCESS"}
    ELSE IF client = "connecting" THEN {"MQTT_ERR_SUCCESS", "MQTT_ERR_NO_CONN"}
    ELSE {"MQTT_ERR_NO_CONN"}

\* (mutant) the callback is recorded whatever the broker client answered
subscribe_mqtt_IgnoreRc(subs, client, topic, callback, rc) ==
    IF client = "None" THEN [subs |-> subs, ret |-> "False"]
    ELSE [subs |-> {e \in subs : e.topic # topic}
                       \cup {[topic |-> topic, callback |-> callback]},
          ret |-> "True"]

\* lines 369-378
subscribe_mqtt(subs, client, topic, callback, rc) ==
    IF client = "None" THEN [subs |-> subs, ret |-> "False"]
    ELSE IF rc # "MQTT_ERR_SUCCESS" THEN [subs |-> subs, ret |-> "False"]
    ELSE [subs |-> {e \in subs : e.topic # topic}
                       \cup {[topic |-> topic, callback |-> callback]},
          ret |-> "True"]

\* lines 382-383
unsubscribe_mqtt(subs, topic) == {e \in subs : e.topic # topic}

SubscribeMqtt(topic, i) ==
    \E rc \in SubscribeRcs(mqtt_client) :
        LET r == subscribe_mqtt(subscribe, mqtt_client, topic, [bulb |-> i], rc)
        IN  /\ subscribe' = r.subs
            /\ sent' = << >>
            /\ last' = [op |-> "subscribe_mqtt", topic |-> topic, i |-> i,
                        client |-> mqtt_client, rc |-> rc, ret |-> r.ret]
            /\ UNCHANGED <<mqtt_client, devices, bulbs, hass, entities>>

UnsubscribeMqtt(topic) ==
    /\ subscribe' = unsubscribe_mqtt(subscribe, topic)
    /\ sent' = << >>
    /\ last' = [op |-> "unsubscribe_mqtt", topic |-> topic]
    /\ UNCHANGED <<mqtt_client, devices, bulbs, hass, entities>>

\* the attributes of SESSION: those the class SengledSession declares
\* (sengledapi.py lines 23-31); nothing in the local integration adds another
SessionAttributes ==
    {"addon_host", "addon_port", "mqtt_host", "mqtt_port", "mqtt_username",
     "mqtt_password", "mqtt_client", "subscribe", "devices"}

\* reinitialize_mqtt, lines 311-330: the client and the map afterwards, the
\* topics a bus-level subscribe was issued for, and how the call ended.
\* Reading an attribute SESSION does not have raises AttributeError: line 313
\* reads SESSION.jsession_id once the client is known to exist, line 319 reads
\* SESSION.mqtt_server after loop_stop() and disconnect().  Past these the
\* client is reconnected and every topic of the map subscribed again, which
\* re-assigns each callback under its own topic.
reinitialize_mqtt(client, subs) ==
    IF client = "None"
    THEN [client |-> client, subs |-> subs, issued |-> {}, ret |-> Return("False")]
    ELSE IF "jsession_id" \notin SessionAttributes
    THEN [client |-> client, subs |-> subs, issued |-> {},
          ret |-> Raise("AttributeError")]
    ELSE IF "mqtt_server" \notin SessionAttributes
    THEN [client |-> "lost", subs |-> subs, issued |-> {},
          ret |-> Raise("AttributeError")]
    ELSE [client |-> "connecting", subs |-> subs, issued |-> Topics(subs),
          ret |-> Return("True")]

ReinitializeMqtt ==
    LET r == reinitialize_mqtt(mqtt_client, subscribe)
    IN  /\ mqtt_client' = r.client
        /\ subscribe' = r.subs
        /\ sent' = << >>
        /\ last' = [op |-> "reinitialize_mqtt", client |-> mqtt_client,
                    subs |-> subscribe, issued |-> r.issued, ret |-> r.ret]
        /\ UNCHANGED <<devices, bulbs, hass, entities>>

\* inbound status records (an element of what json.loads returns)
RecBrightness == [dn |-> "AA:BB", type |-> "brightness", value |-> PyStr("50")]
RecBrightness80 == [dn |-> "AA:BB", type |-> "brightness", value |-> PyInt(80)]
RecColorTemperature == [dn |-> "AA:BB", type |-> "colorTemperature", value |-> PyStr("50")]
RecColor == [dn |-> "AA:BB", type |-> "color", value |-> PyStr("0:0:255")]
RecColorMode == [dn |-> "AA:BB", type |-> "colorMode", value |-> PyStr("1")]
RecSwitch == [dn |-> "AA:BB", type |-> "switch", value |-> PyStr("0")]
RecOtherDn == [dn |-> "CC:DD", type |-> "brightness", value |-> PyInt(10)]
RecNoDn == [type |-> "brightness", value |-> PyStr("50")]
RecNoType == [dn |-> "AA:BB", value |-> PyStr("50")]
RecNoValue == [dn |-> "AA:BB", type |-> "color"]

StatusRecords ==
    { RecBrightness, RecBrightness80, RecColorTemperature, RecColor, RecColorMode,
      RecSwitch, RecOtherDn, RecNoDn, RecNoType, RecNoValue }

\* an inbound message: whether json.loads accepts it, and the list it returns
Message(json_ok, data) == [json_ok |-> json_ok, data |-> data]

StatusMessages ==
    { Message(FALSE, << >>), Message(TRUE, << >>) } \cup
    { Message(TRUE, <<r>>) : r \in StatusRecords } \cup
    { Message(TRUE, <<RecBrightness, RecBrightness80>>),
      Message(TRUE, <<RecBrightness80, RecBrightness>>),
      Message(TRUE, <<RecBrightness, RecColorTemperature>>),
      Message(TRUE, <<RecColor, RecColorMode>>),
      Message(TRUE, <<RecOtherDn, RecColor>>),
      Message(TRUE, <<RecSwitch, RecNoDn>>),
      Message(TRUE, <<RecBrightness, RecNoValue>>),
      Message(TRUE, <<RecNoValue, RecBrightness>>) }

\* on_message, lines 275-278: a message on a topic of SESSION.subscribe is
\* handed to its callback; any other message is dropped
OnMessage(topic, message) ==
    /\ mqtt_client = "connected"
    /\ IF topic \in Topics(subscribe)
       THEN LET i == CallbackOf(subscribe, topic).bulb
                s == update_status(bulbs[i], message)
            IN  /\ bulbs' = [bulbs EXCEPT ![i] = s.bulb]
                /\ last' = [op |-> "on_message", topic |-> topic, arg |-> message,
                            delivered |-> TRUE, i |-> i, raised |-> s.raised]
       ELSE /\ bulbs' = bulbs
            /\ last' = [op |-> "on_message", topic |-> topic, arg |-> message,
                        delivered |-> FALSE, i |-> 0, raised |-> FALSE]
    /\ sent' = << >>
    /\ UNCHANGED <<mqtt_client, subscribe, devices, hass, entities>>

-----------------------------------------------------------------------------
(* The program *)

\* the module-level SESSION (sengledapi.py lines 21-34) before any bulb exists
Init ==
    /\ mqtt_client = "None"
    /\ subscribe = {}
    /\ devices = << >>
    /\ bulbs = << >>
    /\ hass = NoSetup
    /\ entities = << >>
    /\ sent = << >>
    /\ last = [op |-> "init"]

\* the bus client's connection life cycle
NextConnection ==
    \/ \E connect_raises \in BOOLEAN : InitializeMqtt(connect_raises)
    \/ \E rc \in {0, 5} : OnConnect(rc)
    \/ OnDisconnect
    \/ LoopReconnect

NextSession ==
    \/ AsyncSetup
    \/ \E l \in Listings : AsyncGetDevices(l)
    \/ \E l \in Listings : DiscoverDevices(l)
    \/ \E m \in Macs, i \in DOMAIN bulbs : SubscribeMqtt(StatusTopic(m), i)
    \/ \E m \in Macs : UnsubscribeMqtt(StatusTopic(m))
    \/ ReinitializeMqtt

NextPublish ==
    \E m \in Macs, c \in CommandTypes, v \in CommandValues : PublishMqtt(m, c, v)

NextInbound ==
    \E m \in Macs, msg \in StatusMessages : OnMessage(StatusTopic(m), msg)

NextSetters ==
    \/ \E i \in DOMAIN bulbs, onoff \in OnOff : AsyncToggle(i, onoff)
    \/ \E i \in DOMAIN bulbs, b \in BrightnessArgs : AsyncSetBrightness(i, b)
    \/ \E i \in DOMAIN bulbs, k \in KelvinArgs : AsyncColorTemperature(i, k)
    \/ \E i \in DOMAIN bulbs, c \in ColorArgs : AsyncSetColor(i, c)

NextUpdate ==
    \E i \in DOMAIN bulbs, r \in UpdateResponses : AsyncUpdate(i, r)

\* the host platform's calls on a light entity
NextEntity ==
    \/ \E i \in DOMAIN bulbs, kwargs \in TurnOnKwargs : AsyncTurnOn(i, kwargs)
    \/ \E i \in DOMAIN bulbs : AsyncTurnOff(i)

Next ==
    \/ NextConnection
    \/ NextSession
    \/ NextPublish
    \/ NextInbound
    \/ NextSetters
    \/ NextEntity
    \/ NextUpdate

Spec == Init /\ [][Next]_vars

\* The program with the environment restricted to a part of its operations;
\* every behaviour of these is a behaviour of Spec.

\* the connection and the command publisher
NextPublisher == NextConnection \/ NextPublish
SpecPublisher == Init /\ [][NextPublisher]_vars

\* the connection, the device listing, discovery and the subscription map
NextDiscovery == NextConnection \/ NextSession
SpecDiscovery == Init /\ [][NextDiscovery]_vars

\* the setup of one device on a good connection
NextSetupOne ==
    \/ InitializeMqtt(FALSE)
    \/ OnConnect(0)
    \/ AsyncSetup
    \/ AsyncGetDevices(Listing(200, TRUE, TRUE, TRUE, <<EntryA2>>))
    \/ \E l \in SingleListings : DiscoverDevices(l)

\* one device: its setters and its refresh from the add-on
NextFacade ==
    NextSetupOne \/ OnDisconnect \/ NextSetters \/ NextEntity \/ NextUpdate
SpecFacade == Init /\ [][NextFacade]_vars

\* one or two devices on a good connection: inbound status messages and the
\* refresh from the add-on
NextStatus ==
    \/ InitializeMqtt(FALSE)
    \/ OnConnect(0)
    \/ AsyncSetup
    \/ AsyncGetDevices(Listing(200, TRUE, TRUE, TRUE, <<EntryA2>>))
    \/ \E l \in StatusListings : DiscoverDevices(l)
    \/ \E m \in Macs, i \in DOMAIN bulbs : SubscribeMqtt(StatusTopic(m), i)
    \/ NextInbound
    \/ \E i \in DOMAIN bulbs : AsyncUpdate(i, Response(200, TRUE, TRUE, TRUE, TRUE, FullAttrs))
SpecStatus == Init /\ [][NextStatus]_vars

\* The unit conversions on their own: a platform brightness is converted to the
\* device's percentage as async_set_brightness does, the percentage back as
\* async_update does, and that to a percentage again; a Kelvin value is
\* converted as async_color_temperature does and back as async_update does.
BrightnessInputs == 0..255
KelvinInputs == 200..6500

InitUnits ==
    /\ mqtt_client = "None"
    /\ subscribe = {}
    /\ devices = << >>
    /\ bulbs = << >>
    /\ hass = NoSetup
    /\ entities = << >>
    /\ sent = << >>
    /\ last \in {[op |-> "brightness", b |-> b] : b \in BrightnessInputs}
                 \cup {[op |-> "kelvin", k |-> k] : k \in KelvinInputs}

BrightnessToDevice ==
    /\ last.op = "brightness"
    /\ last' = [op |-> "brightness_to_device", b |-> last.b,
                p |-> brightness_to_device(last.b)]
    /\ UNCHANGED <<mqtt_client, subscribe, devices, bulbs, hass, entities, sent>>

BrightnessFromDevice ==
    /\ last.op = "brightness_to_device"
    /\ last' = [op |-> "brightness_from_device", b |-> last.b, p |-> last.p,
                back |-> brightness_from_device(last.p)]
    /\ UNCHANGED <<mqtt_client, subscribe, devices, bulbs, hass, entities, sent>>

BrightnessToDeviceAgain ==
    /\ last.op = "brightness_from_device"
    /\ last' = [op |-> "brightness_round_trip", b |-> last.b, p |-> last.p,
                back |-> last.back, again |-> brightness_to_device(last.back)]
    /\ UNCHANGED <<mqtt_client, subscribe, devices, bulbs, hass, entities, sent>>

KelvinToDevice ==
    /\ last.op = "kelvin"
    /\ last' = [op |-> "kelvin_to_device", k |-> last.k, p |-> kelvin_to_device(last.k)]
    /\ UNCHANGED <<mqtt_client, subscribe, devices, bulbs, hass, entities, sent>>

KelvinFromDevice ==
    /\ last.op = "kelvin_to_device"
    /\ last' = [op |-> "kelvin_from_device", k |-> last.k, p |-> last.p,
                back |-> kelvin_from_device(last.p)]
    /\ UNCHANGED <<mqtt_client, subscribe, devices, bulbs, hass, entities, sent>>

NextUnits ==
    \/ BrightnessToDevice
    \/ BrightnessFromDevice
    \/ BrightnessToDeviceAgain
    \/ KelvinToDevice
    \/ KelvinFromDevice
SpecUnits == InitUnits /\ [][NextUnits]_vars

-----------------------------------------------------------------------------
(* Properties *)

GoodResponse(r) ==
    r.status = 200 /\ r.json_ok /\ r.success /\ r.has_device /\ r.has_attributes

\* the numeric attributes async_update reads for bulb b all parse
NumbersParse(b, attrs) ==
    /\ "deviceRssi" \in DOMAIN attrs => IsIntLiteral(attrs["deviceRssi"])
    /\ b.support_brightness /\ "brightness" \in DOMAIN attrs
           => IsIntLiteral(attrs["brightness"])
    /\ b.support_color_temp /\ "colorTemperature" \in DOMAIN attrs
           => IsIntLiteral(attrs["colorTemperature"])

\* C1: async_update never changes a bulb's on/off flag, whatever the response;
\* and on a 200/success response whose numbers parse the signal strength is
\* the reported one (-50 when absent), and brightness, colour temperature,
\* colour and firmware version take the (converted) reported values where the
\* attribute is present and the bulb supports it, and keep their value otherwise.
C1_LocalWins ==
    [][ last'.op = "async_update" =>
          LET i == last'.i
              r == last'.arg
              a == r.attrs
              b == bulbs[i]
              c == bulbs'[i]
          IN  /\ is_on(c) = is_on(b)
              /\ \A j \in DOMAIN bulbs : j # i => bulbs'[j] = bulbs[j]
              /\ GoodResponse(r) /\ NumbersParse(b, a) =>
                   /\ c.available
                   /\ c.device_rssi = IF "deviceRssi" \in DOMAIN a
                                      THEN IntOf(a["deviceRssi"]) ELSE -50
                   /\ c.brightness =
                        IF b.support_brightness /\ "brightness" \in DOMAIN a
                        THEN PyInt(RoundHalfEven(IntOf(a["brightness"]) * 255, 100))
                        ELSE b.brightness
                   /\ c.color_temperature =
                        IF b.support_color_temp /\ "colorTemperature" \in DOMAIN a
                        THEN PyInt(2000 + 45 * IntOf(a["colorTemperature"]))
                        ELSE b.color_temperature
                   /\ c.color = IF b.support_color /\ "color" \in DOMAIN a
                                THEN PyStr(a["color"]) ELSE b.color
                   /\ c.firmware_version = IF "version" \in DOMAIN a
                                           THEN PyStr(a["version"])
                                           ELSE b.firmware_version
      ]_vars

\* a bulb switched on locally while the add-on reports it off: after the
\* refresh it is still on, with the reported signal strength, brightness,
\* colour temperature, colour and firmware version
C1_Witness ==
    /\ last.op = "async_update"
    /\ last.after = "async_toggle"
    /\ last.arg = Response(200, TRUE, TRUE, TRUE, TRUE, FullAttrs)
    /\ FullAttrs.switch = "0"
    /\ LET b == bulbs[last.i]
       IN  /\ is_on(b)
           /\ b.support_brightness /\ b.support_color /\ b.support_color_temp
           /\ b.device_rssi = -40
           /\ b.brightness = PyInt(128)
           /\ b.color_temperature = PyInt(4250)
           /\ b.color = PyStr("255:0:0")
           /\ b.firmware_version = PyStr("V1")

\* the cases in which publish_mqtt must fail: no client, a client that is not
\* connected, an acknowledgment wait that raises
PublishFailureCase(l) ==
    \/ l.client # "connected"
    \/ l.outcome \in {"ValueError", "RuntimeError"}

\* C2: publish_mqtt never raises; it returns False in every failure case and
\* returns a true value only when the message was published.
C2_PublishNeverRaises ==
    last.op = "publish_mqtt" =>
        /\ last.ret.kind = "return"
        /\ PublishFailureCase(last) => last.ret = Return("False")
        /\ last.ret # Return("False") => last.outcome = "published"

\* C3: an invocation of publish_mqtt with a client present hands the bus
\* exactly one message, on wifielement/{device}/update, whose payload is a
\* one-element list with dn = device, type = kind, value = str(value) and a
\* numeric time; without a client nothing is handed to the bus.
C3_OneMessage ==
    last.op = "publish_mqtt" =>
        IF last.client = "None" THEN sent = << >>
        ELSE /\ Len(sent) = 1
             /\ sent[1].topic = "wifielement/" \o last.device_mac \o "/update"
             /\ Len(sent[1].payload) = 1
             /\ LET e == sent[1].payload[1]
                IN  /\ DOMAIN e = {"dn", "type", "value", "time"}
                    /\ e.dn = last.device_mac
                    /\ e.type = last.command_type
                    /\ IsPyStr(last.value) => e.value = last.value.str
                    /\ last.value = PyInt(50) => e.value = "50"
                    /\ e.time \in Nat

\* the spec's example: publish("AA:BB", "switch", "1") on a live client
C3_Witness ==
    /\ last.op = "publish_mqtt"
    /\ last.client = "connected"
    /\ last.device_mac = "AA:BB" /\ last.command_type = "switch"
    /\ last.value = PyStr("1")
    /\ Len(sent) = 1
    /\ sent[1].topic = "wifielement/AA:BB/update"
    /\ sent[1].payload[1].value = "1"

\* a listing from which every record can be built
GoodListing(l) ==
    /\ l.status = 200 /\ l.json_ok /\ l.success /\ l.has_devices
    /\ \A k \in 1..Len(l.entries) : l.entries[k].ok

\* the complete list a listing describes
CompleteList(l) ==
    [k \in 1..Len(l.entries) |-> BulbProperty(BulbData(l.entries[k]), TRUE)]

\* C4: after a refresh SESSION.devices is the complete list built from the
\* response, or, when the response is a failure or a record cannot be built,
\* the list that preceded the refresh.
C4_AtomicReplace ==
    last.op \in {"async_get_devices", "discover_devices"} =>
        IF GoodListing(last.arg) THEN devices = CompleteList(last.arg)
        ELSE devices = last.prev

\* the value of attribute `name` of a listing entry ("" when absent)
EntryAttr(e, name) ==
    IF \E k \in 1..Len(e.attributes) : e.attributes[k].name = name
    THEN PyStrOf(e.attributes[CHOOSE k \in 1..Len(e.attributes) :
                                  e.attributes[k].name = name].value)
    ELSE ""

\* C5: for a successful listing discover_devices hands over one bulb per MAC
\* key, with that identifier, on/off = (switch = "1") and brightness =
\* round(p/100*255) for the reported percentage p.
C5_DiscoveredRecords ==
    last.op = "discover_devices" /\ GoodListing(last.arg) =>
        /\ Len(bulbs) = Len(last.arg.entries)
        /\ \A k \in DOMAIN bulbs :
             LET e == last.arg.entries[k]
             IN  /\ bulbs[k].device_mac = e.mac
                 /\ is_on(bulbs[k]) = (EntryAttr(e, "switch") = "1")
                 /\ IsIntLiteral(EntryAttr(e, "brightness")) =>
                      bulbs[k].brightness =
                        PyInt(RoundHalfEven(IntOf(EntryAttr(e, "brightness")) * 255, 100))

\* the ways async_update fails on bulb b: no 200, unparseable body, no success
\* flag or device key, no attributes, or a number it reads that does not parse
UpdateFails(b, r) == ~GoodResponse(r) \/ ~NumbersParse(b, r.attrs)

\* C6: a failed async_update marks the bulb unavailable and changes no other
\* field.
C6_FailureKeepsState ==
    [][ last'.op = "async_update" /\ UpdateFails(bulbs[last'.i], last'.arg) =>
          bulbs'[last'.i] = [bulbs[last'.i] EXCEPT !.available = FALSE]
      ]_vars

\* C7: after a setter the matching local field holds the commanded value.
C7_OptimisticUpdate ==
    /\ last.op = "async_toggle" => bulbs[last.i].state = (last.arg = "1")
    /\ last.op = "async_set_brightness" => bulbs[last.i].brightness = PyInt(last.arg)
    /\ last.op = "async_set_color" =>
           bulbs[last.i].color = PyStr(convert_color_HA(last.arg))
    /\ last.op = "async_color_temperature" =>
           bulbs[last.i].color_temperature = PyInt(last.arg)

\* C8: once discovery has handed over the bulbs, SESSION.subscribe maps every
\* bulb's status topic to that bulb's update_status.
C8_StatusSubscribed ==
    last.op = "discover_devices" =>
        \A k \in DOMAIN bulbs :
            /\ StatusTopic(bulbs[k].device_mac) \in Topics(subscribe)
            /\ CallbackOf(subscribe, StatusTopic(bulbs[k].device_mac)) = [bulb |-> k]

\* a status record addressed to the device `mac`
Addressed(rec, mac) ==
    "dn" \in DOMAIN rec /\ "type" \in DOMAIN rec /\ rec.dn = mac

\* every record of the list that names the device and one of its four status
\* fields carries a value
CarriesValues(data, mac) ==
    \A k \in 1..Len(data) :
        Addressed(data[k], mac)
          /\ data[k].type \in {"color", "colorMode", "brightness", "colorTemperature"}
        => "value" \in DOMAIN data[k]

\* the value of a status field after the list: that of the last record that
\* names the device and the field, the old value when there is none
FieldAfter(data, mac, type, old) ==
    LET at == {k \in 1..Len(data) : Addressed(data[k], mac) /\ data[k].type = type}
    IN  IF at = {} THEN old
        ELSE data[CHOOSE k \in at : \A j \in at : j <= k].value

\* C9: a bus message never changes any bulb's on/off flag and changes no bulb
\* but the one whose callback receives it; an unparseable message changes
\* nothing; otherwise each of color, colorMode, brightness, colorTemperature
\* takes the value of the (last) record that names this device and that field
\* and keeps its value when no record does, every other field is unchanged,
\* and nothing is raised.
C9_StatusUpdate ==
    [][ last'.op = "on_message" =>
          LET i == last'.i
              msg == last'.arg
          IN  /\ \A j \in DOMAIN bulbs : is_on(bulbs'[j]) = is_on(bulbs[j])
              /\ \A j \in DOMAIN bulbs :
                    ~last'.delivered \/ j # i => bulbs'[j] = bulbs[j]
              /\ last'.delivered /\ ~msg.json_ok =>
                    bulbs'[i] = bulbs[i] /\ ~last'.raised
              /\ last'.delivered /\ msg.json_ok
                   /\ CarriesValues(msg.data, bulbs[i].device_mac) =>
                    LET b == bulbs[i]
                        c == bulbs'[i]
                        mac == b.device_mac
                    IN  /\ ~last'.raised
                        /\ c.color = FieldAfter(msg.data, mac, "color", b.color)
                        /\ c.color_mode =
                             FieldAfter(msg.data, mac, "colorMode", b.color_mode)
                        /\ c.brightness =
                             FieldAfter(msg.data, mac, "brightness", b.brightness)
                        /\ c.color_temperature =
                             FieldAfter(msg.data, mac, "colorTemperature",
                                        b.color_temperature)
                        /\ [c EXCEPT !.color = b.color, !.color_mode = b.color_mode,
                                     !.brightness = b.brightness,
                                     !.color_temperature = b.color_temperature] = b
      ]_vars

\* a brightness record for AA:BB was delivered to that bulb, which now holds
\* the record's value
C9_Witness ==
    /\ last.op = "on_message"
    /\ last.delivered
    /\ last.arg = Message(TRUE, <<RecBrightness>>)
    /\ bulbs[last.i].device_mac = "AA:BB"
    /\ bulbs[last.i].brightness = RecBrightness.value
    /\ bulbs[last.i].color_mode = PyUnset

\* the percentage a reported value stands for
PercentOf(v) == IF IsPyInt(v) THEN v.int ELSE IntOf(v.str)

\* C10: in every state a bulb's brightness is an integer on the 0-255 scale
\* and its colour temperature, when known, an integer number of Kelvin in
\* 2000..6500; a percentage p reported by the device is stored as
\* round(p/100*255) (brightness) or as its Kelvin interpolation 2000 + 45p
\* (colour temperature), whether it came by async_update or by a bus status
\* message.
C10_Normalized ==
    /\ \A i \in DOMAIN bulbs :
        /\ IsPyInt(bulbs[i].brightness)
        /\ bulbs[i].brightness.int \in 0..255
        /\ \/ bulbs[i].color_temperature = PyNone
           \/ /\ IsPyInt(bulbs[i].color_temperature)
              /\ bulbs[i].color_temperature.int \in 2000..6500
    /\ last.op = "async_update" =>
        /\ bulbs[last.i].support_brightness =>
             bulbs[last.i].brightness =
               PyInt(RoundHalfEven(IntOf(last.arg.attrs.brightness) * 255, 100))
        /\ bulbs[last.i].support_color_temp =>
             bulbs[last.i].color_temperature =
               PyInt(2000 + 45 * IntOf(last.arg.attrs.colorTemperature))
    /\ last.op = "on_message" /\ last.delivered /\ last.arg.json_ok
         /\ Len(last.arg.data) = 1
         /\ Addressed(last.arg.data[1], bulbs[last.i].device_mac)
         /\ "value" \in DOMAIN last.arg.data[1] =>
        LET rec == last.arg.data[1]
        IN  /\ rec.type = "brightness" =>
                 bulbs[last.i].brightness =
                   PyInt(RoundHalfEven(PercentOf(rec.value) * 255, 100))
            /\ rec.type = "colorTemperature" =>
                 bulbs[last.i].color_temperature =
                   PyInt(2000 + 45 * PercentOf(rec.value))

\* C11: subscribe_mqtt returns False and leaves SESSION.subscribe as it was
\* when there is no client, when the client has no connection (connect failed
\* or the connection is lost) or when the client reports a failure; otherwise
\* it returns True and the map then holds the callback under the topic, with
\* every other entry as before.  No step of the program adds an entry to the
\* map except a subscribe_mqtt whose bus-level subscribe succeeded.
C11_SubscribeContract ==
    [][ /\ last'.op = "subscribe_mqtt" =>
            LET l == last'
                entry == [topic |-> l.topic, callback |-> [bulb |-> l.i]]
            IN  /\ l.client \in {"None", "failed", "lost"} => l.ret = "False"
                /\ IF l.client = "None" \/ l.rc # "MQTT_ERR_SUCCESS"
                   THEN l.ret = "False" /\ subscribe' = subscribe
                   ELSE /\ l.ret = "True"
                        /\ entry \in subscribe'
                        /\ \A e \in subscribe' : e.topic = l.topic => e = entry
                        /\ {e \in subscribe' : e.topic # l.topic}
                             = {e \in subscribe : e.topic # l.topic}
        /\ \A e \in subscribe' \ subscribe :
              /\ last'.op = "subscribe_mqtt"
              /\ last'.rc = "MQTT_ERR_SUCCESS"
              /\ e.topic = last'.topic
      ]_vars

\* a subscribe on a lost connection has just failed and left the map, which
\* holds another topic's callback from an earlier successful subscribe, alone
C11_Witness ==
    /\ last.op = "subscribe_mqtt"
    /\ last.client = "lost"
    /\ last.ret = "False"
    /\ last.topic = StatusTopic("AA:BB")
    /\ Topics(subscribe) = {StatusTopic("CC:DD")}

\* C12: reinitialize_mqtt on a session that has a client returns True without
\* raising, leaves the client reconnecting, has issued a bus-level subscribe
\* for every topic that was in SESSION.subscribe, and leaves the map with the
\* same topics and callbacks.
C12_Reconnect ==
    last.op = "reinitialize_mqtt" /\ last.client # "None" =>
        /\ last.ret = Return("True")
        /\ last.issued = Topics(last.subs)
        /\ subscribe = last.subs
        /\ mqtt_client = "connecting"

\* C13: when the client is not connected at the moment async_setup checks
\* the connection (connect raised, or the CONNACK has not been handled yet),
\* async_setup returns False; and once it has returned False the device list
\* was never fetched, hass.data holds no account object, the light platform is
\* not loaded and no bulb or entity exists.
C13_SetupAbortsUnconnected ==
    /\ last.op = "async_setup" /\ last.client # "connected" =>
          hass.pc = "done" /\ hass.ret = "False"
    /\ hass.ret = "False" =>
          /\ hass.pc = "done"
          /\ ~hass.account
          /\ hass.light = "no"
          /\ devices = << >> /\ bulbs = << >> /\ entities = << >>

\* async_setup found the client still waiting for its CONNACK and returned
\* False; the connection has come up since, and still nothing was loaded
C13_Witness ==
    /\ hass.ret = "False"
    /\ mqtt_client = "connected"
    /\ last.op = "on_connect"
    /\ devices = << >>

\* C14: when async_get_devices yields no device during async_setup (empty,
\* failed or malformed listing), async_setup returns False and the light
\* platform is not loaded.
C14_SetupAbortsEmpty ==
    last.op = "async_get_devices" /\ Len(devices) = 0 =>
        hass.ret = "False" /\ hass.light = "no"

\* the distance between two integers
Dist(x, y) == IF x >= y THEN x - y ELSE y - x

\* C15: the percentage async_set_brightness publishes for a platform
\* brightness in 0..255 lies in 1..100.
C15_PercentInRange ==
    last.op = "brightness_to_device" => last.p \in 1..100

\* C16: a Kelvin value in 200..6500 converted to the device percentage and
\* back comes out within 1 Kelvin of itself.
C16_KelvinRoundTrip ==
    last.op = "kelvin_from_device" => Dist(last.back, last.k) <= 1

\* C17: for a brightness b in 0..255 the percentage of the value that the
\* percentage of b converts back to is within 1 of the percentage of b.
C17_BrightnessRoundTrip ==
    last.op = "brightness_round_trip" =>
        /\ last.p = RoundHalfEven(last.b * 100, 255)
        /\ last.back = RoundHalfEven(last.p * 255, 100)
        /\ Dist(last.again, last.p) <= 1

\* brightness 128 is published as 50 %, read back as 128 (127.5 rounds to the
\* even neighbour) and published as 50 % again
C17_Witness ==
    /\ last.op = "brightness_round_trip"
    /\ last.b = 128 /\ last.p = 50 /\ last.back = 128 /\ last.again = 50

\* C18: async_turn_on and async_turn_off leave every entity's copy (is_on,
\* brightness, colour, colour temperature, availability, signal strength) as
\* it was; after async_update the entity's copy equals the bulb's fields; and
\* an entity's copy changes in no other step.
C18_EntityCopy ==
    [][ /\ last'.op \in {"async_turn_on", "async_turn_off"} => entities' = entities
        /\ last'.op = "async_update" =>
              LET e == entities'[last'.i]
                  b == bulbs'[last'.i]
              IN  /\ e.state = is_on(b)
                  /\ e.available = b.available
                  /\ e.brightness = b.brightness
                  /\ e.color_temperature = b.color_temperature
                  /\ e.color = b.color
                  /\ e.device_rssi = b.device_rssi
        /\ \A i \in DOMAIN entities \cap DOMAIN entities' :
              entities'[i] # entities[i] => last'.op = "async_update" /\ last'.i = i
      ]_vars

\* async_turn_on without attributes has flipped the bulb's flag to on while
\* the entity still reports off
C18_Witness ==
    /\ last.op = "async_turn_on"
    /\ last.kwargs = NoKwargs
    /\ ~last.was_on
    /\ is_on(bulbs[last.i])
    /\ ~entities[last.i].state

\* C19: async_toggle(v) leaves the bulb's flag equal to (v = "1") however the
\* publish ended (published, False returned, or an exception), and an
\* async_update that follows the toggle keeps the flag at that value whatever
\* the add-on reports.
C19_ToggleIgnoresPublish ==
    [][ /\ last'.op = "async_toggle" =>
              is_on(bulbs'[last'.i]) = (last'.arg = "1")
        /\ last.op = "async_toggle" /\ last'.op = "async_update" /\ last'.i = last.i =>
              is_on(bulbs'[last'.i]) = (last.arg = "1")
      ]_vars

\* a toggle to on of a bulb that was off, whose command was not published,
\* followed by a refresh in which the add-on reports the bulb off: bulb and
\* entity report on
C19_Witness ==
    /\ last.op = "async_update"
    /\ last.after_unsent_flip
    /\ last.arg = Response(200, TRUE, TRUE, TRUE, TRUE, FullAttrs)
    /\ FullAttrs.switch = "0"
    /\ is_on(bulbs[last.i])
    /\ entities[last.i].state

\* the command types async_turn_on is to publish for its keyword arguments
TurnOnTypes(kwargs) ==
    IF DOMAIN kwargs \cap {"brightness", "hs_color", "color_temp_kelvin"} = {}
    THEN <<"switch">>
    ELSE (IF "brightness" \in DOMAIN kwargs THEN <<"brightness">> ELSE << >>)
         \o (IF "hs_color" \in DOMAIN kwargs THEN <<"color">> ELSE << >>)
         \o (IF "color_temp_kelvin" \in DOMAIN kwargs THEN <<"colorTemperature">>
             ELSE << >>)

\* C20: async_turn_on publishes one switch = "1" command when no attribute is
\* supplied and otherwise one command per supplied attribute, in the order
\* brightness, color, colorTemperature, and no switch command; with only a
\* brightness or only a colour temperature a bulb that was off stays off, and
\* a supplied colour leaves it on.  async_turn_off publishes exactly one
\* switch = "0" command.
C20_TurnOnCommands ==
    /\ last.op = "async_turn_on" =>
          LET kw == last.kwargs
              b == bulbs[last.i]
          IN  /\ [k \in 1..Len(sent) |-> sent[k].payload[1].type] = TurnOnTypes(kw)
              /\ \A k \in 1..Len(sent) :
                    /\ sent[k].topic = UpdateTopic(b.device_mac)
                    /\ sent[k].payload[1].type = "switch" =>
                          sent[k].payload[1].value = "1"
              /\ DOMAIN kw \in {{"brightness"}, {"color_temp_kelvin"}} /\ ~last.was_on
                    => ~is_on(b)
              /\ "hs_color" \in DOMAIN kw => is_on(b)
    /\ last.op = "async_turn_off" =>
          /\ Len(sent) = 1
          /\ sent[1].payload[1].type = "switch"
          /\ sent[1].payload[1].value = "0"

====
